---- MODULE Spec2Model ----
(***************************************************************************)
(* Model of novosparc's reconstruction helpers                             *)
(* (src/novotest/reconstruction/_novosparc.py):                            *)
(*   setup_for_OT_reconstruction, find_spatial_archetypes,                 *)
(*   get_genes_from_spatial_archetype, find_spatially_related_genes.       *)
(*                                                                         *)
(* Every function is a one-shot batch transform, so each is one action     *)
(* that takes the call's arguments (chosen in the initial state) to the    *)
(* values the function returns.  Floating-point values are modelled as     *)
(* exact rationals extended with +inf and NaN, with numpy's rules for      *)
(* 0/0, x/inf, inf/inf and for comparisons against NaN.                    *)
(***************************************************************************)
EXTENDS Integers, Sequences, FiniteSets, TLC

\* ------------------------------------------------------------------ bounds

\* number of rows (cells / locations) handed to setup_for_OT_reconstruction
NumCells == 4

\* coordinates of a row are drawn from 0..MaxCoord
MaxCoord == 5

\* num_neighbors_source and num_neighbors_target are drawn from 1..MaxNeighbors
MaxNeighbors == 2

\* --------------------------------------------------- extended rational values

RECURSIVE GCD(_, _)
GCD(a, b) == IF b = 0 THEN a ELSE GCD(b, a % b)

Abs(x) == IF x < 0 THEN -x ELSE x

\* a finite value n/d in lowest terms, d > 0
Rat(n, d) ==
    LET g == GCD(Abs(n), Abs(d))
        s == IF d < 0 THEN -1 ELSE 1
    IN  [t |-> "fin", n |-> (s * n) \div g, d |-> (s * d) \div g]

Fin(n) == [t |-> "fin", n |-> n, d |-> 1]
PosInf == [t |-> "inf", n |-> 1, d |-> 1]
NaN    == [t |-> "nan", n |-> 0, d |-> 1]

IsNaN(a) == a.t = "nan"
IsFin(a) == a.t = "fin"

\* IEEE comparisons: anything compared with NaN is false
EqX(a, b) ==
    \/ a.t = "fin" /\ b.t = "fin" /\ a.n * b.d = b.n * a.d
    \/ a.t = "inf" /\ b.t = "inf"

GtX(a, b) ==
    \/ a.t = "fin" /\ b.t = "fin" /\ a.n * b.d > b.n * a.d
    \/ a.t = "inf" /\ b.t = "fin"

\* only nonnegative values and +inf are ever added or divided here
AddX(a, b) ==
    IF a.t = "nan" \/ b.t = "nan" THEN NaN
    ELSE IF a.t = "inf" \/ b.t = "inf" THEN PosInf
    ELSE Rat(a.n * b.d + b.n * a.d, a.d * b.d)

SubX(a, b) ==
    IF a.t = "nan" \/ b.t = "nan" THEN NaN
    ELSE IF a.t = "inf" /\ b.t = "inf" THEN NaN
    ELSE IF a.t = "inf" THEN PosInf
    ELSE IF b.t = "inf" THEN NaN
    ELSE Rat(a.n * b.d - b.n * a.d, a.d * b.d)

DivX(a, b) ==
    IF a.t = "nan" \/ b.t = "nan" THEN NaN
    ELSE IF b.t = "inf" THEN (IF a.t = "inf" THEN NaN ELSE Fin(0))
    ELSE IF b.n = 0 THEN (IF a.t = "fin" /\ a.n = 0 THEN NaN ELSE PosInf)
    ELSE IF a.t = "inf" THEN PosInf
    ELSE Rat(a.n * b.d, a.d * b.n)

MulX(a, b) ==
    IF a.t = "nan" \/ b.t = "nan" THEN NaN
    ELSE IF a.t = "inf" \/ b.t = "inf"
         THEN (IF a.n = 0 \/ b.n = 0 THEN NaN ELSE PosInf)
    ELSE Rat(a.n * b.n, a.d * b.d)

\* numpy's minimum / maximum of two values (NaN propagates)
MinX(a, b) ==
    IF a.t = "nan" \/ b.t = "nan" THEN NaN ELSE IF GtX(a, b) THEN b ELSE a

MaxX(a, b) ==
    IF a.t = "nan" \/ b.t = "nan" THEN NaN ELSE IF GtX(b, a) THEN b ELSE a

\* --------------------------------------------------------- square matrices

Cells == 1..NumCells

\* the entries of a square matrix, as a set
Entries(M) == {M[i][j] : i \in Cells, j \in Cells}

\* the largest of a set of values; NaN if one of them is NaN
SetMax(V) ==
    IF \E v \in V : IsNaN(v) THEN NaN
    ELSE CHOOSE v \in V : \A w \in V : ~GtX(w, v)

\* ndarray.max()
MatMax(M) == SetMax(Entries(M))

\* the entries of a square matrix in row-major order
Flatten(M) ==
    [p \in 1..(NumCells * NumCells) |->
        M[((p - 1) \div NumCells) + 1][((p - 1) % NumCells) + 1]]

RECURSIVE SumTo(_, _)
\* f[1] + ... + f[n]; each partial sum is bound before it is used, so that
\* it is computed once
SumTo(f, n) ==
    IF n = 0 THEN Fin(0)
    ELSE CHOOSE r \in {AddX(acc, f[n]) : acc \in {SumTo(f, n - 1)}} : TRUE

\* np.mean(M)
MatMean(M) ==
    CHOOSE r \in {DivX(SumTo(f, NumCells * NumCells), Fin(NumCells * NumCells)) :
                     f \in {Flatten(M)}} : TRUE

\* M / v   (element-wise)
MatDiv(M, v) == [i \in Cells |-> [j \in Cells |-> DivX(M[i][j], v)]]

\* M -= v  (element-wise)
MatSub(M, v) == [i \in Cells |-> [j \in Cells |-> SubX(M[i][j], v)]]

\* ------------------------------------------- setup_for_OT_reconstruction

VARIABLES
    dge,                   \* argument: one feature value per cell
    locations,             \* argument: one coordinate per location
    num_neighbors_source,  \* argument
    num_neighbors_target,  \* argument
    A_locations,           \* local: the neighbour matrix of the locations
    A_expression,          \* local: the neighbour matrix of the expression
    sp_locations,          \* local, as it is when line 41 divides it
    sp_expression,         \* local, as it is when line 43 divides it
    sp_expression_raw,     \* floyd_warshall_numpy's result, before line 38
    cost_locations,        \* returned
    cost_expression,       \* returned
    ot_pc                  \* "call" | "returned"

ot_vars == <<dge, locations, num_neighbors_source, num_neighbors_target,
             A_locations, A_expression,
             sp_locations, sp_expression, sp_expression_raw,
             cost_locations, cost_expression, ot_pc>>

VARIABLES
    sdge,          \* argument: NumGenes rows of four samples
    num_clusters,  \* argument
    clusters,      \* returned: the cluster id of every gene
    archetypes,    \* returned: one row per id in 1..num_clusters
    gene_corrs,    \* returned: the coefficient of every gene with its archetype
    fa_pc          \* "call" | "returned" | "IndexError"

fa_vars == <<sdge, num_clusters, clusters, archetypes, gene_corrs, fa_pc>>

VARIABLES
    gene_names,       \* argument: the names, a sequence
    fn,               \* the function called: "get" | "find" | "none"
    index,            \* argument: archetype (of "get") or gene (of "find")
    pval_threshold,   \* argument
    passed_archetype, \* the archetype "find" hands to "get"; NoCall if none
    ret               \* what the call returned or raised

q_vars == <<gene_names, fn, index, pval_threshold, passed_archetype, ret>>

vars == <<ot_vars, fa_vars, q_vars>>

\* Euclidean distance between rows i and j of a one-column matrix
Dist(X, i, j) == Abs(X[i] - X[j])

\* The k nearest rows of row i, the row itself being a candidate
\* (include_self=True).  Equal distances are ordered by the neighbour
\* search's own rule, so every k-set closed under "nearer" is possible.
NbChoices(X, k, i) ==
    {S \in SUBSET Cells :
        /\ Cardinality(S) = k
        /\ \A a \in S, b \in Cells \ S : Dist(X, i, a) <= Dist(X, i, b)}

RECURSIVE KnnRows(_, _, _)
\* the possible first i rows of kneighbors_graph(X, k, include_self=True)
KnnRows(X, k, i) ==
    IF i = 0 THEN {<<>>}
    ELSE {Append(r, S) : r \in KnnRows(X, k, i - 1), S \in NbChoices(X, k, i)}

kneighbors_graph(X, k) == KnnRows(X, k, NumCells)

\* nx.from_scipy_sparse_matrix(A): an undirected graph, so an entry in
\* either direction is an edge
Adjacent(A, i, j) == j \in A[i] \/ i \in A[j]

\* floyd_warshall_numpy's start: weight 1 on edges, inf elsewhere, 0 on the
\* diagonal
EdgeMatrix(A) ==
    [i \in Cells |-> [j \in Cells |->
        IF i = j THEN Fin(0)
        ELSE IF Adjacent(A, i, j) THEN Fin(1) ELSE PosInf]]

\* one pass of the relaxation, through the intermediate node k
RelaxStep(P, k) ==
    [i \in Cells |-> [j \in Cells |->
        MinX(P[i][j], AddX(P[i][k], P[k][j]))]]

RECURSIVE Relax(_, _)
\* the relaxation through the intermediate nodes 1..k
Relax(D, k) ==
    IF k = 0 THEN D
    ELSE CHOOSE R \in {RelaxStep(P, k) : P \in {Relax(D, k - 1)}} : TRUE

floyd_warshall_numpy(A) == Relax(EdgeMatrix(A), NumCells)

\* np.nanmax(sp[sp != np.inf])
MaxFinite(M) == SetMax({v \in Entries(M) : ~EqX(v, PosInf)})

\* lines 41-44: cost = sp / sp.max(); cost -= np.mean(cost)
Normalize(sp) ==
    CHOOSE R \in {MatSub(cost[1], cost[2]) :
                     cost \in {<<c, MatMean(c)>> :
                                 c \in {MatDiv(sp, m) : m \in {MatMax(sp)}}}} : TRUE

None == [t |-> "none", n |-> 0, d |-> 1]
NoMatrix == [i \in Cells |-> [j \in Cells |-> None]]

\* One-column inputs with pairwise distinct rows, listed in increasing order
\* (the computation is the same under any reordering of the rows).
PointSets ==
    {X \in [Cells -> 0..MaxCoord] :
        \A i \in 1..(NumCells - 1) : X[i] < X[i + 1]}

\* lines 30-32: the shortest paths of the location space, as divided at
\* line 41
LocationShortestPaths(A) == floyd_warshall_numpy(A)

\* sp[sp > m] = m left out
ClipAboveOmitted(M, m) == M

\* sp[sp > m] = m
ClipAbove(M, m) ==
    [i \in Cells |-> [j \in Cells |-> IF GtX(M[i][j], m) THEN m ELSE M[i][j]]]

setup_for_OT_reconstruction ==
    /\ ot_pc = "call"
    /\ \E Al \in kneighbors_graph(locations, num_neighbors_target),
          Ae \in kneighbors_graph(dge, num_neighbors_source) :
        \E spl \in {LocationShortestPaths(Al)},
           spe \in {floyd_warshall_numpy(Ae)} :
        \E sp_expression_max \in {MaxFinite(spe)} :
        \E clipped \in {ClipAbove(spe, sp_expression_max)} :
            /\ A_locations' = Al
            /\ A_expression' = Ae
            /\ sp_locations' = spl
            /\ sp_expression_raw' = spe
            /\ sp_expression' = clipped
            /\ cost_locations' = Normalize(spl)
            /\ cost_expression' = Normalize(clipped)
    /\ ot_pc' = "returned"
    /\ UNCHANGED <<dge, locations, num_neighbors_source, num_neighbors_target>>
    /\ UNCHANGED <<sdge, num_clusters, clusters, archetypes, gene_corrs, fa_pc,
                   gene_names, fn, index, pval_threshold, passed_archetype, ret>>

\* ----------------------------------------------------- scipy.stats.pearsonr

\* Every expression row has four samples.  With four samples (two degrees
\* of freedom) pearsonr's two-sided p-value is exactly 1 - |r|.
Samples == 1..4

\* x - mean(x)
Centered(x) ==
    CHOOSE v \in {[j \in Samples |-> SubX(x[j], m)] :
                     m \in {DivX(SumTo(x, Cardinality(Samples)),
                                 Fin(Cardinality(Samples)))}} : TRUE

Dot(u, v) ==
    CHOOSE r \in {SumTo(w, Cardinality(Samples)) :
                     w \in {[j \in Samples |-> MulX(u[j], v[j])]}} : TRUE

\* The correlation coefficient r = cov / sqrt(vx * vy), held as the rational
\* sign(r) * r^2 = cov * |cov| / (vx * vy): the map r -> sign(r) * r^2 is
\* increasing, so every comparison of coefficients is a comparison of these.
\* A row of zero variance gives 0 / 0 = NaN.
Coefficient(cov, vx, vy) ==
    DivX(MulX(cov, IF GtX(Fin(0), cov) THEN SubX(Fin(0), cov) ELSE cov),
         MulX(vx, vy))

\* pearsonr(x, y)[0]
pearsonr(x, y) ==
    CHOOSE r \in {Coefficient(Dot(c[1], c[2]), Dot(c[1], c[1]), Dot(c[2], c[2])) :
                     c \in {<<Centered(x), Centered(y)>>}} : TRUE

\* r > 0
Positive(r) == GtX(r, Fin(0))

\* float(k / 10) as a coefficient: (k/10)^2
Tenths(k) == Rat(k * k, 100)

\* pearsonr(x, y)[1] <= th for the coefficient r: 1 - |r| <= th, that is
\* |r| >= 1 - th; th is a rational in [0, 1]; a NaN coefficient has a NaN
\* p-value, and NaN <= th is false
PValueLeq(r, th) ==
    /\ ~IsNaN(r)
    /\ \E c \in {SubX(Fin(1), th)} :
          \E r2 \in {IF GtX(Fin(0), r) THEN SubX(Fin(0), r) ELSE r} :
             ~GtX(MulX(c, c), r2)

\* -------------------------------------------------- find_spatial_archetypes

\* number of gene rows of sdge
NumGenes == 3

Genes == 1..NumGenes

\* the rows a gene may have: rising, falling, flat (zero variance), and two
\* that correlate with the rising row by 0.8 and by 0.447
GeneRows ==
    { <<0, 1, 2, 3>>, <<3, 2, 1, 0>>, <<1, 1, 1, 1>>, <<0, 2, 1, 3>>,
      <<0, 3, 0, 3>> }

\* a row of sdge as values
Row(X, g) == [j \in Samples |-> Fin(X[g][j])]

RECURSIVE ClusterSum(_, _, _, _)
\* the sum of column j over the genes g' <= g of the set C
ClusterSum(X, C, j, g) ==
    IF g = 0 THEN 0
    ELSE ClusterSum(X, C, j, g - 1) + (IF g \in C THEN X[g][j] ELSE 0)

RECURSIVE Spread(_, _, _, _)
\* sum over the columns j' <= j of (|B| * sum(A) - |A| * sum(B))^2
Spread(X, A, B, j) ==
    IF j = 0 THEN 0
    ELSE Spread(X, A, B, j - 1)
         + (Cardinality(B) * ClusterSum(X, A, j, NumGenes)
            - Cardinality(A) * ClusterSum(X, B, j, NumGenes)) ^ 2

\* The square of Ward's distance between the clusters A and B:
\* 2|A||B| / (|A| + |B|) * |mean(A) - mean(B)|^2
WardDist2(X, A, B) ==
    Rat(2 * Spread(X, A, B, Cardinality(Samples)),
        Cardinality(A) * Cardinality(B) * (Cardinality(A) + Cardinality(B)))

PairDist2(X, pr) ==
    LET A == CHOOSE a \in pr : TRUE
        B == CHOOSE b \in pr : b # A
    IN  WardDist2(X, A, B)

Pairs(P) == {pr \in SUBSET P : Cardinality(pr) = 2}

\* the smallest of a nonempty set of finite values
SetMin(V) == CHOOSE v \in V : \A w \in V : ~GtX(v, w)

MergePair(P, pr) == (P \ pr) \cup {UNION pr}

\* the pairs of clusters of P that are closest to each other
ClosestPairs(X, P) ==
    CHOOSE S \in { {q \in Pairs(P) : PairDist2(X, q) = m} :
                     m \in {SetMin({PairDist2(X, q) : q \in Pairs(P)})} } : TRUE

RECURSIVE Linkages(_, _)
\* hierarchy.ward: the merge sequences that start from the partition P; each
\* step joins a closest pair (any of them when several are as close) and
\* records the squared height and the partition it leaves
Linkages(X, P) ==
    IF Cardinality(P) <= 1 THEN {<<>>}
    ELSE UNION
        { UNION { { <<[h |-> PairDist2(X, pr), part |-> Q]>> \o rest :
                      rest \in Linkages(X, Q) } :
                  Q \in {MergePair(P, pr)} } :
          pr \in ClosestPairs(X, P) }

ward(X) == Linkages(X, {{g} : g \in Genes})

\* the partition left by the first m merges of Z
PartitionAfter(Z, m) == IF m = 0 THEN {{g} : g \in Genes} ELSE Z[m].part

\* Cuttable, with every threshold a merge height of Z: the first merge is
\* always made
CuttableAtHeights(Z, m, below) ==
    \/ m = Len(Z)
    \/ m >= 1 /\ m < Len(Z) /\ GtX(Z[m + 1].h, Z[m].h)

\* A threshold can separate the first m merges of Z from the later ones.
\* No merge at all (m = 0) takes a threshold under the first height; when
\* that height is 0 (equal rows) such a threshold is negative, and below
\* says whether fcluster has one.
Cuttable(Z, m, below) ==
    \/ m = 0 /\ (Len(Z) = 0 \/ below \/ GtX(Z[1].h, Fin(0)))
    \/ m = Len(Z)
    \/ m >= 1 /\ m < Len(Z) /\ GtX(Z[m + 1].h, Z[m].h)

\* hierarchy.fcluster(Z, t, criterion='maxclust'): the flat clusters of the
\* smallest threshold that leaves no more than t clusters
FlatClusters(Z, t, below) ==
    LET ok == {m \in 0..Len(Z) :
                 Cuttable(Z, m, below) /\ Cardinality(PartitionAfter(Z, m)) <= t}
    IN  PartitionAfter(Z, CHOOSE m \in ok : \A m2 \in ok : m <= m2)

\* the numberings 1..|P| of the flat clusters (fcluster numbers them in the
\* order its traversal of the dendrogram meets them)
Numberings(P) ==
    {f \in [P -> 1..Cardinality(P)] : \A A \in P, B \in P : f[A] = f[B] => A = B}

\* fcluster's result T: the id of every gene
Assignment(P, f) == [g \in Genes |-> f[CHOOSE A \in P : g \in A]]

\* line 58: np.mean(sdge[np.where(clusters == x)[0], :], axis=0)
arch_comp(X, T, x) ==
    [j \in Samples |->
        DivX(Fin(ClusterSum(X, {g \in Genes : T[g] = x}, j, NumGenes)),
             Fin(Cardinality({g \in Genes : T[g] = x})))]

\* num_clusters < 1: archetypes is the empty one-dimensional array, and
\* archetypes[clusters[gene]-1, :] at line 63 raises IndexError
FindArchetypesFails ==
    /\ fa_pc = "call"
    /\ num_clusters < 1
    /\ fa_pc' = "IndexError"
    /\ UNCHANGED <<sdge, num_clusters, clusters, archetypes, gene_corrs>>
    /\ UNCHANGED <<ot_vars, gene_names, fn, index, pval_threshold,
                   passed_archetype, ret>>

FindArchetypesReturns ==
    /\ fa_pc = "call"
    /\ num_clusters >= 1
    /\ \E Z \in ward(sdge) :
       \E P \in {FlatClusters(Z, num_clusters, below) : below \in BOOLEAN} :
       \E f \in Numberings(P) :
       \E T \in {Assignment(P, f)} :
       \E arch \in {[x \in 1..num_clusters |-> arch_comp(sdge, T, x)]} :
          /\ clusters' = T
          /\ archetypes' = arch
          /\ gene_corrs' = [g \in Genes |-> pearsonr(Row(sdge, g), arch[T[g]])]
    /\ fa_pc' = "returned"
    /\ UNCHANGED <<sdge, num_clusters>>
    /\ UNCHANGED <<ot_vars, gene_names, fn, index, pval_threshold,
                   passed_archetype, ret>>


\* --------- get_genes_from_spatial_archetype, find_spatially_related_genes

\* passed_archetype while find_spatially_related_genes has made no call of
\* get_genes_from_spatial_archetype (no archetype index has this value)
NoCall == -1000

\* the 1-based position numpy reads for index i of an axis of length n:
\* negative indices count from the end; 0 stands for IndexError
PyIndex(i, n) ==
    IF 0 <= i /\ i < n THEN i + 1
    ELSE IF -n <= i /\ i < 0 THEN i + n + 1
    ELSE 0

Returned(names) == [kind |-> "genes", genes |-> names]
ReturnedNone == [kind |-> "None", genes |-> <<>>]
IndexError == [kind |-> "IndexError", genes |-> <<>>]
Pending == [kind |-> "call", genes |-> <<>>]

\* 1, 2, ..., n
Upto(n) == [i \in 1..n |-> i]

\* lines 78-80: all_corrs, the coefficient of every gene with the row y
AllCorrs(X, y) == [g \in 1..Len(X) |-> pearsonr(Row(X, g), y)]

\* gene_names[indices], the mask of positive coefficients left out
SelectNamesUnmasked(names, pos, indices) ==
    [k \in 1..Len(indices) |-> names[indices[k]]]

\* line 85: gene_names[all_corrs > 0][indices]; pos lists the genes of
\* positive coefficient, indices are positions in pos
SelectNames(names, pos, indices) ==
    [k \in 1..Len(indices) |-> names[pos[indices[k]]]]

\* lines 81-87, for the coefficients corrs of the genes
SelectGenes(names, corrs, th) ==
    LET pos == SelectSeq(Upto(Len(corrs)), LAMBDA g : Positive(corrs[g]))
        indices == SelectSeq(Upto(Len(pos)),
                             LAMBDA i : PValueLeq(corrs[pos[i]], th))
    IN  IF Len(indices) = 0 THEN ReturnedNone
        ELSE IF Len(names) # Len(corrs) THEN IndexError
        ELSE Returned(SelectNames(names, pos, indices))

\* lines 69-87
GetGenes(X, names, arch, a, th) ==
    IF PyIndex(a, Len(arch)) = 0 THEN IndexError
    ELSE CHOOSE r \in {SelectGenes(names, corrs, th) :
                        corrs \in {AllCorrs(X, arch[PyIndex(a, Len(arch))])}} : TRUE

\* line 97: arch_corrs, the coefficient of the row x with every archetype
ArchCorrs(x, arch) == [a \in 1..Len(arch) |-> pearsonr(x, arch[a])]

\* np.max(arch_corrs) < 0.7; the maximum is NaN when an entry is NaN, and
\* NaN < 0.7 is false
MaxBelow(cs) == GtX(Tenths(7), SetMax({cs[a] : a \in 1..Len(cs)}))

\* np.argmax(arch_corrs), 0-based: the first NaN if there is one, else the
\* first entry that no other exceeds
ArgMax(cs) ==
    LET first == IF \E a \in 1..Len(cs) : IsNaN(cs[a])
                 THEN CHOOSE a \in 1..Len(cs) :
                        /\ IsNaN(cs[a])
                        /\ \A b \in 1..(a - 1) : ~IsNaN(cs[b])
                 ELSE CHOOSE a \in 1..Len(cs) :
                        /\ \A b \in 1..Len(cs) : ~GtX(cs[b], cs[a])
                        /\ \A b \in 1..(a - 1) : GtX(cs[a], cs[b])
    IN  first - 1

\* the rows an archetype may have: rising, one that correlates with rising
\* by 0.8, flat (zero variance) and the mean of an empty cluster
ArchetypeRows ==
    { [j \in Samples |-> Fin(<<0, 1, 2, 3>>[j])],
      [j \in Samples |-> Rat(<<0, 2, 1, 3>>[j], 2)],
      [j \in Samples |-> Fin(1)],
      [j \in Samples |-> NaN] }

\* gene i is named by the pair <<"gene", i>>
GeneNames(n) == [i \in 1..n |-> <<"gene", i>>]

get_genes_from_spatial_archetype ==
    /\ fn = "none"
    /\ \E a \in -1..Len(archetypes), th \in {Fin(0), Rat(1, 4)} :
          /\ index' = a
          /\ pval_threshold' = th
          /\ ret' = GetGenes(sdge, gene_names, archetypes, a, th)
    /\ fn' = "get"
    /\ UNCHANGED <<gene_names, passed_archetype, sdge, archetypes>>
    /\ UNCHANGED <<ot_vars, num_clusters, clusters, gene_corrs, fa_pc>>

find_spatially_related_genes ==
    /\ fn = "none"
    /\ \E gene \in -1..Len(sdge), th \in {Fin(0), Rat(1, 4)} :
          /\ index' = gene
          /\ pval_threshold' = th
          /\ IF PyIndex(gene, Len(sdge)) = 0
             THEN ret' = IndexError /\ passed_archetype' = NoCall
             ELSE \E cs \in {ArchCorrs(Row(sdge, PyIndex(gene, Len(sdge))),
                                        archetypes)} :
                    IF MaxBelow(cs)
                    THEN ret' = ReturnedNone /\ passed_archetype' = NoCall
                    ELSE /\ passed_archetype' = ArgMax(cs)
                         /\ ret' = GetGenes(sdge, gene_names, archetypes,
                                            ArgMax(cs), th)
    /\ fn' = "find"
    /\ UNCHANGED <<gene_names, sdge, archetypes>>
    /\ UNCHANGED <<ot_vars, num_clusters, clusters, gene_corrs, fa_pc>>

\* ------------------------------------------------------- the specifications

\* one call of setup_for_OT_reconstruction
InitOT ==
    /\ dge \in PointSets
    /\ locations \in PointSets
    /\ num_neighbors_source \in 1..MaxNeighbors
    /\ num_neighbors_target \in 1..MaxNeighbors
    /\ A_locations = <<>> /\ A_expression = <<>>
    /\ sp_locations = NoMatrix /\ sp_expression = NoMatrix
    /\ sp_expression_raw = NoMatrix
    /\ cost_locations = NoMatrix /\ cost_expression = NoMatrix
    /\ ot_pc = "call"
    /\ sdge = <<>> /\ num_clusters = 0 /\ clusters = <<>> /\ archetypes = <<>>
    /\ gene_corrs = <<>> /\ fa_pc = "idle"
    /\ gene_names = <<>> /\ fn = "none" /\ index = 0 /\ pval_threshold = Fin(0)
    /\ passed_archetype = NoCall /\ ret = Pending

NextOT == setup_for_OT_reconstruction

SpecOT == InitOT /\ [][NextOT]_vars

\* one call of find_spatial_archetypes
InitFA ==
    /\ sdge \in [Genes -> GeneRows]
    /\ num_clusters \in 0..(NumGenes + 1)
    /\ clusters = <<>> /\ archetypes = <<>> /\ gene_corrs = <<>>
    /\ fa_pc = "call"
    /\ dge = <<>> /\ locations = <<>>
    /\ num_neighbors_source = 0 /\ num_neighbors_target = 0
    /\ A_locations = <<>> /\ A_expression = <<>>
    /\ sp_locations = <<>> /\ sp_expression = <<>> /\ sp_expression_raw = <<>>
    /\ cost_locations = <<>> /\ cost_expression = <<>>
    /\ ot_pc = "idle"
    /\ gene_names = <<>> /\ fn = "none" /\ index = 0 /\ pval_threshold = Fin(0)
    /\ passed_archetype = NoCall /\ ret = Pending

NextFA == FindArchetypesFails \/ FindArchetypesReturns

SpecFA == InitFA /\ [][NextFA]_vars

\* one call of get_genes_from_spatial_archetype, gene_names aligned with sdge
InitGet ==
    /\ sdge \in [Genes -> GeneRows]
    /\ archetypes \in [1..2 -> ArchetypeRows]
    /\ gene_names = GeneNames(NumGenes)
    /\ fn = "none" /\ index = 0 /\ pval_threshold = Fin(0)
    /\ passed_archetype = NoCall /\ ret = Pending
    /\ num_clusters = 0 /\ clusters = <<>> /\ gene_corrs = <<>> /\ fa_pc = "idle"
    /\ dge = <<>> /\ locations = <<>>
    /\ num_neighbors_source = 0 /\ num_neighbors_target = 0
    /\ A_locations = <<>> /\ A_expression = <<>>
    /\ sp_locations = <<>> /\ sp_expression = <<>> /\ sp_expression_raw = <<>>
    /\ cost_locations = <<>> /\ cost_expression = <<>>
    /\ ot_pc = "idle"

NextGet == get_genes_from_spatial_archetype

SpecGet == InitGet /\ [][NextGet]_vars

\* one call of either gene query, gene_names aligned with sdge or one short
InitQ ==
    /\ sdge \in [Genes -> GeneRows]
    /\ archetypes \in [1..2 -> ArchetypeRows]
    /\ gene_names \in {GeneNames(NumGenes), GeneNames(NumGenes - 1)}
    /\ fn = "none" /\ index = 0 /\ pval_threshold = Fin(0)
    /\ passed_archetype = NoCall /\ ret = Pending
    /\ num_clusters = 0 /\ clusters = <<>> /\ gene_corrs = <<>> /\ fa_pc = "idle"
    /\ dge = <<>> /\ locations = <<>>
    /\ num_neighbors_source = 0 /\ num_neighbors_target = 0
    /\ A_locations = <<>> /\ A_expression = <<>>
    /\ sp_locations = <<>> /\ sp_expression = <<>> /\ sp_expression_raw = <<>>
    /\ cost_locations = <<>> /\ cost_expression = <<>>
    /\ ot_pc = "idle"

NextQ == get_genes_from_spatial_archetype \/ find_spatially_related_genes

SpecQ == InitQ /\ [][NextQ]_vars

\* ----------------------------------- properties of setup_for_OT_reconstruction

Symmetric(M) == \A i \in Cells, j \in Cells : EqX(M[i][j], M[j][i])

MeanZero(M) == EqX(MatMean(M), Fin(0))

HasNaN(M) == \E i \in Cells, j \in Cells : IsNaN(M[i][j])

RECURSIVE ReachFrom(_, _)
\* the nodes joined to a node of S by a path of the neighbour graph
ReachFrom(A, S) ==
    IF \A i \in S, j \in Cells : Adjacent(A, i, j) => j \in S THEN S
    ELSE ReachFrom(A, S \cup {j \in Cells : \E i \in S : Adjacent(A, i, j)})

Connected(A, i, j) == j \in ReachFrom(A, {i})

Disconnected(A) == \E i \in Cells, j \in Cells : ~Connected(A, i, j)

\* C1: for every valid input both returned cost matrices are symmetric and
\* have mean zero, disconnected neighbour graphs included.  Stated for
\* num_neighbors >= 2, where every row has a neighbour other than itself and
\* the largest finite distance is not zero.
C1_CostsSymmetricMeanZero ==
    (ot_pc = "returned" /\ num_neighbors_source >= 2 /\ num_neighbors_target >= 2)
        => /\ Symmetric(cost_expression) /\ MeanZero(cost_expression)
           /\ Symmetric(cost_locations) /\ MeanZero(cost_locations)

\* C2: when the largest finite shortest-path distance of a space is zero the
\* call reports a degenerate input and returns no matrix with NaN entries.
C2_DegenerateInputReported ==
    (/\ ot_pc # "call"
     /\ \/ EqX(MaxFinite(sp_expression_raw), Fin(0))
        \/ EqX(MaxFinite(sp_locations), Fin(0)))
        => /\ ot_pc = "degenerate input"
           /\ ~HasNaN(cost_expression)
           /\ ~HasNaN(cost_locations)

\* C3: before normalization every unreachable entry of the expression-space
\* matrix is the largest finite hop count of that matrix and every reachable
\* entry is its hop count unchanged, while the unreachable entries of the
\* location-space matrix are still infinite when it is divided.
C3_AsymmetricClipping ==
    ot_pc = "returned" =>
        \A i \in Cells :
            \E Re \in {ReachFrom(A_expression, {i})},
               Rl \in {ReachFrom(A_locations, {i})} :
                \A j \in Cells :
                    /\ j \in Re
                          => /\ IsFin(sp_expression[i][j])
                             /\ sp_expression[i][j] = sp_expression_raw[i][j]
                    /\ j \notin Re
                          => /\ IsFin(sp_expression[i][j])
                             /\ \A a \in Cells, b \in Cells :
                                   IsFin(sp_expression_raw[a][b])
                                      => ~GtX(sp_expression_raw[a][b],
                                              sp_expression[i][j])
                             /\ \E a \in Cells, b \in Cells :
                                   sp_expression_raw[a][b] = sp_expression[i][j]
                    /\ j \notin Rl => sp_locations[i][j] = PosInf

\* both neighbour graphs are disconnected and the expression graph has an edge
C3_Witness ==
    /\ ot_pc = "returned"
    /\ Disconnected(A_expression)
    /\ Disconnected(A_locations)
    /\ GtX(MaxFinite(sp_expression_raw), Fin(0))
    /\ \E i \in Cells, j \in Cells : sp_locations[i][j] = PosInf

\* -------------------------------------- properties of find_spatial_archetypes

Members(c) == {g \in Genes : clusters[g] = c}

\* archetype row c is the element-wise mean of the rows of its members
IsMeanOfMembers(c) ==
    /\ Members(c) # {}
    /\ \A j \in Samples :
          EqX(archetypes[c][j],
              Rat(ClusterSum(sdge, Members(c), j, NumGenes), Cardinality(Members(c))))

\* C6: for 1 <= num_clusters <= G the archetype matrix has num_clusters rows
\* of S columns, every gene has one id in 1..num_clusters, and every row c is
\* the mean of the genes assigned to c, so that every id has a member.
C6_EveryClusterHasMembers ==
    (fa_pc = "returned" /\ 1 <= num_clusters /\ num_clusters <= NumGenes)
        => /\ Len(archetypes) = num_clusters
           /\ \A c \in 1..num_clusters : DOMAIN archetypes[c] = Samples
           /\ DOMAIN clusters = Genes
           /\ \A g \in Genes : clusters[g] \in 1..num_clusters
           /\ \A c \in 1..num_clusters : IsMeanOfMembers(c)

\* C7: with num_clusters < 1 or num_clusters > G the call fails and returns
\* no (archetypes, clusters, gene_corrs) triple.
C7_InvalidClusterCountFails ==
    (fa_pc # "call" /\ (num_clusters < 1 \/ num_clusters > NumGenes))
        => fa_pc # "returned"

NonConstant(row) == \E i \in Samples, j \in Samples : row[i] # row[j]

OwnArchetype(g) ==
    \A j \in Samples : EqX(archetypes[clusters[g]][j], Fin(sdge[g][j]))

PairwiseDistinct == \A g \in Genes, g2 \in Genes : g # g2 => sdge[g] # sdge[g2]

ValidIndex(i, n) == 0 <= i /\ i < n

\* the genes of positive coefficient with row y whose p-value is <= th
Significant(y, th) ==
    CHOOSE sel \in
        { SelectSeq(Upto(Len(sdge)),
                    LAMBDA g : Positive(cs[g]) /\ PValueLeq(cs[g], th)) :
          cs \in {[g \in 1..Len(sdge) |-> pearsonr(Row(sdge, g), y)]} } : TRUE

\* what the selection rule asks get_genes_from_spatial_archetype to return
\* for archetype a (0-based)
Expected(a, th) ==
    LET sel == Significant(archetypes[a + 1], th)
    IN  IF sel = <<>> THEN ReturnedNone
        ELSE Returned([k \in 1..Len(sel) |-> gene_names[sel[k]]])

\* C4: get_genes_from_spatial_archetype returns exactly the names of the
\* genes with a positive coefficient and a p-value <= pval_threshold, in
\* increasing gene order, and None if and only if there is no such gene.
C4_SelectsSignificantPositiveGenes ==
    (/\ fn = "get"
     /\ ValidIndex(index, Len(archetypes))
     /\ Len(gene_names) = Len(sdge))
        => ret = Expected(index, pval_threshold)

\* a gene is returned that follows a gene the positive-coefficient mask drops
C4_Witness ==
    /\ fn = "get"
    /\ ValidIndex(index, Len(archetypes))
    /\ ret.kind = "genes"
    /\ \E g \in 1..Len(sdge), g2 \in 1..Len(sdge) :
          /\ g < g2
          /\ ~Positive(pearsonr(Row(sdge, g), archetypes[index + 1]))
          /\ \E k \in 1..Len(ret.genes) : ret.genes[k] = gene_names[g2]

\* the coefficients of the query gene with every archetype
QueryCorrs == ArchCorrs(Row(sdge, PyIndex(index, Len(sdge))), archetypes)

\* the archetypes whose coefficient with the query gene is defined
Defined == {a \in 1..Len(archetypes) : ~IsNaN(QueryCorrs[a])}

\* the first archetype (0-based) of largest defined coefficient
Best ==
    (CHOOSE a \in Defined :
        /\ \A b \in Defined : ~GtX(QueryCorrs[b], QueryCorrs[a])
        /\ \A b \in Defined : b < a => GtX(QueryCorrs[a], QueryCorrs[b])) - 1

\* C5: find_spatially_related_genes returns None without calling
\* get_genes_from_spatial_archetype when the query gene's largest coefficient
\* is < 0.7, and otherwise returns what that function returns for the first
\* archetype of largest coefficient.
C5_ThresholdThenDelegate ==
    (/\ fn = "find"
     /\ ValidIndex(index, Len(sdge))
     /\ Len(gene_names) = Len(sdge)
     /\ Defined # {})
        => IF GtX(Tenths(7), QueryCorrs[Best + 1])
           THEN ret = ReturnedNone /\ passed_archetype = NoCall
           ELSE passed_archetype = Best /\ ret = Expected(Best, pval_threshold)

\* C8: both queries fail with an error when the index is outside
\* 0..len-1 (negative indices included) or gene_names and sdge differ in
\* length.
C8_BadInputFailsFast ==
    (/\ fn # "none"
     /\ \/ fn = "get" /\ ~ValidIndex(index, Len(archetypes))
        \/ fn = "find" /\ ~ValidIndex(index, Len(sdge))
        \/ Len(gene_names) # Len(sdge))
        => ret.kind = "IndexError"

\* C10: the archetype find_spatially_related_genes passes on has a defined
\* coefficient with the query gene, and that coefficient is at least 0.7.
C10_PassedArchetypeCorrelates ==
    (fn = "find" /\ passed_archetype # NoCall)
        => /\ ~IsNaN(QueryCorrs[passed_archetype + 1])
           /\ ~GtX(Tenths(7), QueryCorrs[passed_archetype + 1])

====
